---------------------------- MODULE Spec2Model ----------------------------
(***************************************************************************)
(* A model of streamlit_app.py: the normalization pipeline                 *)
(*   (post_process_amounts, parse_amount_to_float,                         *)
(*   normalize_output_structure, calculate_running_balances), the calls    *)
(*   to the extraction service (upload_file_to_reducto,                    *)
(*   extract_with_enhanced_ocr_async, poll_job_until_complete) and the     *)
(*   loop over the uploaded files.                                         *)
(*                                                                         *)
(* A JSON value is a record whose field t names its type and whose        *)
(* payload is in the field of that type (the others hold a fixed filler,  *)
(* so that any two values can be compared):                               *)
(*   "null";  "bool" (b a BOOLEAN);  "num" (n an integer);                *)
(*   "str" (s a sequence of characters);  "list" (l a sequence of values);*)
(*   "dict" (d a function from key strings to values).                    *)
(* A character is a one-character TLA+ string; the two non-ASCII dashes    *)
(* of the patterns are written "U+2212" and "U+2013".                      *)
(*                                                                         *)
(* A Python float is modelled as an exact decimal [m |-> mantissa,         *)
(* e |-> number of fraction digits], value m / 10^e, in lowest form.       *)
(* Binary rounding and the sign of zero are not modelled.                  *)
(***************************************************************************)
EXTENDS Integers, Sequences, FiniteSets, TLC

VARIABLES
    given,           \* the value first handed to post_process_amounts / parse_amount_to_float
    data,            \* the current value: given after `passes` calls of post_process_amounts
    passes,          \* number of post_process_amounts calls applied so far
    amount,          \* outcome of parse_amount_to_float(data), or NotCalled
    extracted_data,  \* the raw extraction result handed to normalize_output_structure
    normalized_data, \* result of normalize_output_structure
    processed_data,  \* result of post_process_amounts(normalized_data)
    current_balance, \* calculate_running_balances: running balance
    balance_records, \* calculate_running_balances: records emitted so far
    idx,             \* calculate_running_balances: number of transactions consumed
    pc,              \* position in the per-document pipeline
    error,           \* the exception that ended the pipeline, or "none"
    job_id,          \* poll_job_until_complete: the job polled
    timeout,         \* poll_job_until_complete: seconds allowed
    poll_interval,   \* poll_job_until_complete: seconds slept between fetches
    latency,         \* seconds a status request of this call takes
    now,             \* time.time(), in seconds since the call began
    end_time,        \* poll_job_until_complete: the deadline
    elapsed,         \* poll_job_until_complete: seconds slept so far
    resp,            \* poll_job_until_complete: the last response fetched
    poll_pc,         \* position in poll_job_until_complete
    poll_out,        \* what poll_job_until_complete returned or raised
    poll_msg,        \* what the message of the exception raised names
    num_files,       \* len(uploaded_files)
    file_idx,        \* the batch loop's idx: the document being processed
    tmp_files,       \* documents whose temporary file exists
    upload_form,     \* upload_file_to_reducto: the answer to POST /upload
    document_url,    \* the file_id upload_file_to_reducto returned
    reports,         \* st.success / st.error messages shown, per document
    calls,           \* network calls issued for the current document
    submit_resp      \* extract_with_enhanced_ocr_async: resp, the answer to POST /extract

vars == << given, data, passes, amount, extracted_data, normalized_data,
           processed_data, current_balance, balance_records, idx, pc, error,
           job_id, timeout, poll_interval, latency, now, end_time, elapsed,
           resp, poll_pc, poll_out, poll_msg,
           num_files, file_idx, tmp_files, upload_form, document_url, reports,
           calls, submit_resp >>

amountVars == << given, data, passes, amount >>
pipeVars == << extracted_data, normalized_data, processed_data,
               current_balance, balance_records, idx, pc, error >>
pollVars == << job_id, timeout, poll_interval, latency, now, end_time,
               elapsed, resp, poll_pc, poll_out, poll_msg >>
batchVars == << num_files, file_idx, tmp_files, upload_form, document_url,
                reports >>
logVars == << calls, submit_resp >>
serviceVars == << pollVars, batchVars, logVars >>

---------------------------------------------------------------------------
(* Bounds of the model. *)

MaxLen == 3       \* longest enumerated amount string
MaxPasses == 2    \* post_process_amounts calls applied in a row
MaxTxns == 2      \* longest enumerated transaction list
MaxKeys == 1      \* most keys of an enumerated raw extraction result
MaxLatency == 1   \* longest a status request takes, in seconds
MaxFiles == 2     \* most files uploaded in one batch

---------------------------------------------------------------------------
(* JSON values *)

EmptyFcn == [k \in {} |-> 0]

Null == [t |-> "null", b |-> FALSE, n |-> 0, s |-> <<>>, l |-> <<>>, d |-> EmptyFcn]
Bool(x) == [Null EXCEPT !.t = "bool", !.b = x]
Num(x) == [Null EXCEPT !.t = "num", !.n = x]
Str(x) == [Null EXCEPT !.t = "str", !.s = x]
List(x) == [Null EXCEPT !.t = "list", !.l = x]
Dict(x) == [Null EXCEPT !.t = "dict", !.d = x]

EmptyDict == Dict(EmptyFcn)

IsStr(x) == x.t = "str"
IsList(x) == x.t = "list"
IsDict(x) == x.t = "dict"

\* Python truthiness of a JSON value (`if x`, `not x`).
\* Truthiness with the digit string "0" counted as false.
Truthy_DigitZeroFalsy(x) ==
    CASE x.t = "null" -> FALSE
      [] x.t = "bool" -> x.b
      [] x.t = "num" -> x.n # 0
      [] x.t = "str" -> Len(x.s) > 0 /\ x.s # <<"0">>
      [] x.t = "list" -> Len(x.l) > 0
      [] x.t = "dict" -> DOMAIN x.d # {}

Truthy(x) ==
    CASE x.t = "null" -> FALSE
      [] x.t = "bool" -> x.b
      [] x.t = "num" -> x.n # 0
      [] x.t = "str" -> Len(x.s) > 0
      [] x.t = "list" -> Len(x.l) > 0
      [] x.t = "dict" -> DOMAIN x.d # {}

\* dict.get(key, default) and `key in dict` on the payload of a "dict".
DictGet(d, key, default) == IF key \in DOMAIN d THEN d[key] ELSE default
HasKey(d, key) == key \in DOMAIN d

\* d with d[key] = val set (key added when missing).
DictSet(d, key, val) ==
    [k \in DOMAIN d \cup {key} |-> IF k = key THEN val ELSE d[k]]

---------------------------------------------------------------------------
(* Characters and strings *)

Digit == {"0", "1", "2", "3", "4", "5", "6", "7", "8", "9"}

DigitVal(c) ==
    CASE c = "0" -> 0 [] c = "1" -> 1 [] c = "2" -> 2 [] c = "3" -> 3
      [] c = "4" -> 4 [] c = "5" -> 5 [] c = "6" -> 6 [] c = "7" -> 7
      [] c = "8" -> 8 [] c = "9" -> 9

\* \s : the whitespace characters (str.strip() and the regex class agree).
Whitespace == {" "}

\* (-|−|–) : ASCII hyphen-minus, MINUS SIGN, EN DASH.
MinusSigns == {"-", "U+2212", "U+2013"}

\* [$€£₹¥]
CurrencySymbols == {"$", "U+20AC", "U+00A3", "U+20B9", "U+00A5"}

\* [\d,]
DigitOrComma == Digit \cup {","}

RECURSIVE LStrip(_)
LStrip(s) ==
    IF s # <<>> /\ Head(s) \in Whitespace THEN LStrip(Tail(s)) ELSE s

RECURSIVE RStrip(_)
RStrip(s) ==
    IF s # <<>> /\ s[Len(s)] \in Whitespace
    THEN RStrip(SubSeq(s, 1, Len(s) - 1))
    ELSE s

\* str.strip()
Strip(s) == RStrip(LStrip(s))

\* s with every character of the set `drop` deleted: re.sub(r'[...]', '', s)
\* and str.replace(c, '').
RECURSIVE Remove(_, _)
Remove(s, drop) ==
    IF s = <<>> THEN <<>>
    ELSE IF Head(s) \in drop THEN Remove(Tail(s), drop)
    ELSE <<Head(s)>> \o Remove(Tail(s), drop)

AllIn(s, set) == \A i \in 1..Len(s) : s[i] \in set

\* Length of the longest prefix of s made of characters of `set`.
RECURSIVE PrefixLen(_, _)
PrefixLen(s, set) ==
    IF s # <<>> /\ Head(s) \in set THEN 1 + PrefixLen(Tail(s), set) ELSE 0

\* The whole of s matches  [\d,]+\.?\d*
NumberPattern(s) ==
    LET k == PrefixLen(s, DigitOrComma)
        rest == SubSeq(s, k + 1, Len(s))
    IN  /\ k >= 1
        /\ \/ rest = <<>>
           \/ /\ Head(rest) = "."
              /\ AllIn(Tail(rest), Digit)

\* group(1) of  ^([\d,]+\.?\d*)[\s]*(-|−|–)[\s]*$  on s, when it
\* matches: s is a number, whitespace, one minus sign, whitespace.
TrailingMinusGroup(s) ==
    LET u == RStrip(s)
    IN  IF u = <<>> THEN <<>> ELSE RStrip(SubSeq(u, 1, Len(u) - 1))

TrailingMinusMatch(s) ==
    LET u == RStrip(s)
    IN  /\ u # <<>>
        /\ u[Len(u)] \in MinusSigns
        /\ NumberPattern(TrailingMinusGroup(s))

\* group(1) of  ^\(([\d,]+\.?\d*)\)$  on s, when it matches.
ParenGroup(s) == SubSeq(s, 2, Len(s) - 1)

ParenMatch(s) ==
    /\ Len(s) >= 3
    /\ s[1] = "("
    /\ s[Len(s)] = ")"
    /\ NumberPattern(ParenGroup(s))

---------------------------------------------------------------------------
(* Floats as exact decimals *)

RECURSIVE Pow10(_)
Pow10(n) == IF n = 0 THEN 1 ELSE 10 * Pow10(n - 1)

\* Lowest form: no trailing zero among the fraction digits.
RECURSIVE Reduce(_)
Reduce(x) ==
    IF x.e > 0 /\ x.m % 10 = 0 THEN Reduce([m |-> x.m \div 10, e |-> x.e - 1])
    ELSE x

Dec(m, e) == Reduce([m |-> m, e |-> e])
Zero == Dec(0, 0)

Neg(x) == [m |-> 0 - x.m, e |-> x.e]

Add(x, y) ==
    LET e == IF x.e >= y.e THEN x.e ELSE y.e
    IN  Dec(x.m * Pow10(e - x.e) + y.m * Pow10(e - y.e), e)

Sub(x, y) == Add(x, Neg(y))

\* The digits of s read as a natural number.
RECURSIVE DigitsVal(_)
DigitsVal(s) ==
    IF s = <<>> THEN 0
    ELSE 10 * DigitsVal(SubSeq(s, 1, Len(s) - 1)) + DigitVal(s[Len(s)])

\* Outcomes of a call: a returned value or a raised exception.
\* Ok/Raise carry a float, Return/Throw a JSON value.
Ok(x) == [kind |-> "ok", val |-> x, exc |-> "none"]
Raise(e) == [kind |-> "raise", val |-> Zero, exc |-> e]
NotCalled == [kind |-> "none", val |-> Zero, exc |-> "none"]

Return(x) == [kind |-> "ok", val |-> x, exc |-> "none"]
Throw(e) == [kind |-> "raise", val |-> Null, exc |-> e]
NoResult == [kind |-> "none", val |-> Null, exc |-> "none"]

\* float(s) on the characters of the model: surrounding whitespace is
\* ignored, one leading ASCII '-' is a sign, then digits with an optional
\* point and at least one digit; anything else raises ValueError.
FloatUnsigned(s) ==
    LET k == PrefixLen(s, Digit)
        ip == SubSeq(s, 1, k)
        rest == SubSeq(s, k + 1, Len(s))
        fp == IF rest = <<>> THEN <<>> ELSE Tail(rest)
    IN  IF /\ (rest = <<>> \/ Head(rest) = ".")
           /\ AllIn(fp, Digit)
           /\ Len(ip) + Len(fp) >= 1
        THEN Ok(Dec(DigitsVal(ip \o fp), Len(fp)))
        ELSE Raise("ValueError")

PyFloat(s) ==
    LET u == Strip(s)
    IN  IF u # <<>> /\ Head(u) = "-"
        THEN LET r == FloatUnsigned(Tail(u))
             IN  IF r.kind = "ok" THEN Ok(Neg(r.val)) ELSE r
        ELSE FloatUnsigned(u)

\* -float(s): the negation applies only when float returns.
NegFloat(s) ==
    LET r == PyFloat(s)
    IN  IF r.kind = "ok" THEN Ok(Neg(r.val)) ELSE r

---------------------------------------------------------------------------
(* parse_amount_to_float *)

\* ParseStripped with the leading-minus branch passing the commas on to
\* float().
ParseStripped_LeadingKeepsCommas(s) ==
    IF TrailingMinusMatch(s)
    THEN NegFloat(Remove(TrailingMinusGroup(s), {","}))
    ELSE IF ParenMatch(s)
    THEN NegFloat(Remove(ParenGroup(s), {","}))
    ELSE IF s # <<>> /\ Head(s) = "-"
    THEN NegFloat(Tail(s))
    ELSE LET r == PyFloat(Remove(s, {","}))
         IN  IF r.kind = "ok" THEN r ELSE Ok(Zero)

\* The branches after the currency symbols are removed (lines 144-170).
ParseStripped(s) ==
    IF TrailingMinusMatch(s)
    THEN NegFloat(Remove(TrailingMinusGroup(s), {","}))
    ELSE IF ParenMatch(s)
    THEN NegFloat(Remove(ParenGroup(s), {","}))
    ELSE IF s # <<>> /\ Head(s) = "-"
    THEN NegFloat(Remove(Tail(s), {","}))
    ELSE LET r == PyFloat(Remove(s, {","}))
         IN  IF r.kind = "ok" THEN r ELSE Ok(Zero)

parse_amount_to_float(amount_str) ==
    IF ~Truthy(amount_str) \/ ~IsStr(amount_str) THEN Ok(Zero)
    ELSE LET s == Strip(amount_str.s)
         IN  IF s = <<>> THEN Ok(Zero)
             ELSE ParseStripped(Remove(s, CurrencySymbols))

---------------------------------------------------------------------------
(* post_process_amounts *)

\* fix_trailing_minus returning a blank string trimmed.
fix_trailing_minus_BlankTrimmed(text) ==
    LET t == Strip(text)
    IN  IF TrailingMinusMatch(t) THEN TrailingMinusGroup(t) \o <<"-">>
        ELSE IF ParenMatch(t) THEN <<"(">> \o ParenGroup(t) \o <<")">>
        ELSE t

\* fix_trailing_minus with the two rewritten forms exchanged.
fix_trailing_minus_FormsSwapped(text) ==
    IF Strip(text) = <<>> THEN text
    ELSE LET t == Strip(text)
         IN  IF TrailingMinusMatch(t)
             THEN <<"(">> \o TrailingMinusGroup(t) \o <<")">>
             ELSE IF ParenMatch(t) THEN ParenGroup(t) \o <<"-">>
             ELSE t

\* fix_trailing_minus rewriting a trailing-minus amount without its sign.
fix_trailing_minus_SignDropped(text) ==
    IF Strip(text) = <<>> THEN text
    ELSE LET t == Strip(text)
         IN  IF TrailingMinusMatch(t) THEN TrailingMinusGroup(t)
             ELSE IF ParenMatch(t) THEN <<"(">> \o ParenGroup(t) \o <<")">>
             ELSE t

\* fix_trailing_minus removing the commas of the matched number.
fix_trailing_minus_CommasDropped(text) ==
    IF Strip(text) = <<>> THEN text
    ELSE LET t == Strip(text)
         IN  IF TrailingMinusMatch(t)
             THEN Remove(TrailingMinusGroup(t), {","}) \o <<"-">>
             ELSE IF ParenMatch(t)
             THEN <<"(">> \o Remove(ParenGroup(t), {","}) \o <<")">>
             ELSE t

\* fix_trailing_minus on the characters of a string.
fix_trailing_minus(text) ==
    IF Strip(text) = <<>> THEN text
    ELSE LET t == Strip(text)
         IN  IF TrailingMinusMatch(t) THEN TrailingMinusGroup(t) \o <<"-">>
             ELSE IF ParenMatch(t) THEN <<"(">> \o ParenGroup(t) \o <<")">>
             ELSE t

\* post_process_amounts skipping the falsy items of a sequence.
RECURSIVE post_process_amounts_FalsyItemsSkipped(_)
post_process_amounts_FalsyItemsSkipped(x) ==
    CASE IsDict(x) ->
           Dict([k \in DOMAIN x.d |-> post_process_amounts_FalsyItemsSkipped(x.d[k])])
      [] IsList(x) ->
           LET kept == SelectSeq(x.l, Truthy)
           IN  List([i \in 1..Len(kept) |->
                       post_process_amounts_FalsyItemsSkipped(kept[i])])
      [] IsStr(x) -> Str(fix_trailing_minus(x.s))
      [] OTHER -> x

RECURSIVE post_process_amounts(_)
post_process_amounts(x) ==
    CASE IsDict(x) -> Dict([k \in DOMAIN x.d |-> post_process_amounts(x.d[k])])
      [] IsList(x) -> List([i \in 1..Len(x.l) |-> post_process_amounts(x.l[i])])
      [] IsStr(x) -> Str(fix_trailing_minus(x.s))
      [] OTHER -> x

---------------------------------------------------------------------------
(* The amount functions applied to enumerated inputs *)

\* Characters the enumerated strings are made of: two digits, the comma
\* and the point, the three minus signs, the parentheses, a space, a
\* currency symbol and a letter.
Alphabet ==
    {"0", "5", ",", ".", "-", "U+2212", "U+2013", "(", ")", " ", "$", "a"}

Strings(n) == UNION {[1..k -> Alphabet] : k \in 0..n}

\* Leaves and containers for the recursive walk of post_process_amounts.
SampleLeaves ==
    { Null, Bool(TRUE), Num(5), Str(<<>>), Str(<<" ">>),
      Str(<<"5", " ", "U+2212", " ">>), Str(<<" ", "(", "5", ")">>),
      Str(<<"a", " ">>) }

NestedInputs ==
    SampleLeaves
    \cup {List(<<>>), EmptyDict}
    \cup {List(<<x, y>>) : x, y \in SampleLeaves}
    \cup {Dict([debit |-> x, items |-> List(<<y>>)]) : x, y \in SampleLeaves}
    \cup {List(<<Dict([balance |-> x])>>) : x \in SampleLeaves}

\* Longer amounts: the examples of the specification and amounts written
\* after a currency symbol.
SampleAmounts ==
    { Str(<<"1", ",", "2", "3", "4", ".", "5", "6", "-">>),
      Str(<<"(", "1", ",", "2", "3", "4", ".", "5", "6", ")">>),
      Str(<<"-", "1", ",", "2", "3", "4", ".", "5", "6">>),
      Str(<<"1", ",", "2", "3", "4", ".", "5", "6">>),
      Str(<<"$", "1", ",", "0", "0", "0">>),
      Str(<<"$", " ", "5", "-">>),
      Str(<<"5", "0", ".", "0", "0", " ", "-">>),
      Str(<<"(", "5", "0", ".", "0", "0", ")">>),
      Str(<<"$", " ", "(", "5", ")">>),
      Str(<<"U+20AC", "5", ".", "5", "0", " ", "U+2013", " ">>),
      Str(<<" ", "a", " ", "5", "-", "a", " ">>) }

AmountInputs ==
    {Str(s) : s \in Strings(MaxLen)} \cup SampleAmounts \cup NestedInputs

\* No response fetched, no message raised.
NoResponse == [kind |-> "none", ok |-> FALSE, json |-> FALSE, body |-> Null]
NoMsg == [job |-> Null, status |-> Null, timeout |-> 0]

\* poll_job_until_complete is not being called.
PollIdle ==
    /\ job_id = Null
    /\ timeout = 0
    /\ poll_interval = 0
    /\ latency = 0
    /\ now = 0
    /\ end_time = 0
    /\ elapsed = 0
    /\ resp = NoResponse
    /\ poll_pc = "idle"
    /\ poll_out = NoResult
    /\ poll_msg = NoMsg

\* No network call issued, no job submitted.
LogIdle ==
    /\ calls = <<>>
    /\ submit_resp = NoResponse

\* No batch is being processed.
BatchIdle ==
    /\ num_files = 0
    /\ file_idx = 0
    /\ tmp_files = {}
    /\ upload_form = Null
    /\ document_url = Null
    /\ reports = <<>>

PipelineIdle ==
    /\ extracted_data = Null
    /\ normalized_data = NoResult
    /\ processed_data = NoResult
    /\ current_balance = Zero
    /\ balance_records = <<>>
    /\ idx = 0
    /\ pc = "idle"
    /\ error = "none"

InitAmounts ==
    /\ given \in AmountInputs
    /\ data = given
    /\ passes = 0
    /\ amount = NotCalled
    /\ PipelineIdle
    /\ PollIdle
    /\ LogIdle
    /\ BatchIdle

\* processed = post_process_amounts(data), applied to its own result.
PostProcessAmounts ==
    /\ passes < MaxPasses
    /\ data' = post_process_amounts(data)
    /\ passes' = passes + 1
    /\ amount' = NotCalled
    /\ UNCHANGED << serviceVars, given, pipeVars >>

\* parse_amount_to_float(data)
ParseAmount ==
    /\ amount = NotCalled
    /\ amount' = parse_amount_to_float(data)
    /\ UNCHANGED << serviceVars, given, data, passes, pipeVars >>

NextAmounts == PostProcessAmounts \/ ParseAmount

SpecAmounts == InitAmounts /\ [][NextAmounts]_vars

---------------------------------------------------------------------------
(* normalize_output_structure *)

ScalarFields ==
    {"company_name", "bank_name", "currency", "statement_period",
     "account_number", "starting_balance", "ending_balance"}
BoolFields == {"is_bank_statement", "is_application_form"}
ListFields == {"transactions", "daily_ending_balance", "cheques", "fees"}
AllFields == ScalarFields \cup BoolFields \cup ListFields \cup {"nsf_data"}

SummaryKeys ==
    <<"total_nsf_fees", "unique_days_with_nsf", "max_nsfs_in_any_7day_window">>

\* The characters of a summary key, for `key in summary` on a string.
KeyChars(key) ==
    CASE key = "total_nsf_fees" ->
           <<"t", "o", "t", "a", "l", "_", "n", "s", "f", "_", "f", "e", "e", "s">>
      [] key = "unique_days_with_nsf" ->
           <<"u", "n", "i", "q", "u", "e", "_", "d", "a", "y", "s", "_", "w", "i", "t", "h", "_", "n", "s", "f">>
      [] key = "max_nsfs_in_any_7day_window" ->
           <<"m", "a", "x", "_", "n", "s", "f", "s", "_", "i", "n", "_", "a", "n", "y", "_", "7", "d", "a", "y", "_", "w", "i", "n", "d", "o", "w">>

DefaultSummary ==
    Dict([total_nsf_fees |-> Num(0),
          unique_days_with_nsf |-> Num(0),
          max_nsfs_in_any_7day_window |-> Num(0)])

DefaultNsf == Dict([events |-> List(<<>>), summary |-> DefaultSummary])

\* needle occurs in hay (str.__contains__).
IsSubstring(needle, hay) ==
    \E i \in 0..(Len(hay) - Len(needle)) :
        SubSeq(hay, i + 1, i + Len(needle)) = needle

\* `key not in summary` followed by `summary[key] = 0` (lines 231-236):
\* the membership test needs a container, the assignment a mapping.
SummaryStep(acc, key) ==
    IF acc.kind # "ok" THEN acc
    ELSE LET summary == acc.val
         IN  CASE summary.t = "dict" ->
                    IF HasKey(summary.d, key) THEN acc
                    ELSE Return(Dict(DictSet(summary.d, key, Num(0))))
               [] summary.t = "str" ->
                    IF IsSubstring(KeyChars(key), summary.s) THEN acc
                    ELSE Throw("TypeError")
               [] summary.t = "list" ->
                    IF \E i \in 1..Len(summary.l) : summary.l[i] = Str(KeyChars(key))
                    THEN acc
                    ELSE Throw("TypeError")
               [] OTHER -> Throw("TypeError")

SummaryFix(summary) ==
    SummaryStep(SummaryStep(SummaryStep(Return(summary), SummaryKeys[1]),
                            SummaryKeys[2]), SummaryKeys[3])

\* Lines 219-236 on the nsf_data mapping nsf: [out |-> outcome, nsf |-> the
\* mapping as the call leaves it] (the mapping is updated in place, so what
\* was added before an exception stays).
NsfFix(nsf) ==
    LET n1 == IF HasKey(nsf, "events") THEN nsf
              ELSE DictSet(nsf, "events", List(<<>>))
    IN  IF ~HasKey(n1, "summary")
        THEN LET n2 == DictSet(n1, "summary", DefaultSummary)
             IN  [out |-> Return(Dict(n2)), nsf |-> n2]
        ELSE LET r == SummaryFix(n1["summary"])
             IN  IF r.kind = "ok"
                 THEN LET n2 == DictSet(n1, "summary", r.val)
                      IN  [out |-> Return(Dict(n2)), nsf |-> n2]
                 ELSE [out |-> r, nsf |-> n1]

\* FieldValue with the scalar fields decided by key presence.
FieldValue_ScalarPresence(d, f) ==
    LET x == DictGet(d, f, Null)
    IN  CASE f \in ScalarFields -> IF HasKey(d, f) THEN x ELSE Null
          [] f \in BoolFields -> IF HasKey(d, f) THEN x ELSE Bool(FALSE)
          [] f \in ListFields -> IF IsList(x) THEN x ELSE List(<<>>)
          [] f = "nsf_data" -> IF IsDict(x) THEN x ELSE DefaultNsf

\* FieldValue with the boolean fields decided by truthiness.
FieldValue_BoolTruthy(d, f) ==
    LET x == DictGet(d, f, Null)
    IN  CASE f \in ScalarFields -> IF Truthy(x) THEN x ELSE Null
          [] f \in BoolFields -> IF Truthy(x) THEN x ELSE Bool(FALSE)
          [] f \in ListFields -> IF IsList(x) THEN x ELSE List(<<>>)
          [] f = "nsf_data" -> IF IsDict(x) THEN x ELSE DefaultNsf

\* FieldValue with the list fields decided by truthiness.
FieldValue_ListTruthy(d, f) ==
    LET x == DictGet(d, f, Null)
    IN  CASE f \in ScalarFields -> IF Truthy(x) THEN x ELSE Null
          [] f \in BoolFields -> IF HasKey(d, f) THEN x ELSE Bool(FALSE)
          [] f \in ListFields -> IF Truthy(x) THEN x ELSE List(<<>>)
          [] f = "nsf_data" -> IF IsDict(x) THEN x ELSE DefaultNsf

\* Lines 183-205: the value of one field of `normalized`.
FieldValue(d, f) ==
    LET x == DictGet(d, f, Null)
    IN  CASE f \in ScalarFields -> IF Truthy(x) THEN x ELSE Null
          [] f \in BoolFields -> IF HasKey(d, f) THEN x ELSE Bool(FALSE)
          [] f \in ListFields -> IF IsList(x) THEN x ELSE List(<<>>)
          [] f = "nsf_data" -> IF IsDict(x) THEN x ELSE DefaultNsf

\* normalize_output_structure(raw): [out |-> the record returned or the
\* exception raised, arg |-> the argument as the call leaves it]. A source
\* nsf_data mapping is the very object stored in `normalized`, so the keys
\* added to it are added to the argument too.
normalize_output_structure(raw) ==
    LET d == IF IsDict(raw) THEN raw.d ELSE EmptyFcn
        first == [f \in AllFields |-> FieldValue(d, f)]
        shared == IsDict(DictGet(d, "nsf_data", Null))
        r == NsfFix(first["nsf_data"].d)
        after == IF shared THEN Dict(DictSet(d, "nsf_data", Dict(r.nsf))) ELSE raw
    IN  [out |-> IF r.out.kind = "ok"
                 THEN Return(Dict(DictSet(first, "nsf_data", r.out.val)))
                 ELSE r.out,
         arg |-> after]

---------------------------------------------------------------------------
(* calculate_running_balances *)

\* The sequence `for transaction in transactions` walks, or the TypeError
\* of iterating a value that is no container. The characters of a string
\* and the keys of a mapping are strings.
Iterate(x) ==
    CASE x.t = "list" -> Return(x)
      [] x.t = "str" -> Return(List([i \in 1..Len(x.s) |-> Str(<<x.s[i]>>)]))
      [] x.t = "dict" ->
           Return(List([i \in 1..Cardinality(DOMAIN x.d) |-> Str(<<>>)]))
      [] OTHER -> Throw("TypeError")

\* Lines 263-265 and 268-270: `if s and s.strip(): amount = parse(s)`.
\* Ok(Zero) stands for "nothing to apply".
AmountOf(x) ==
    IF ~Truthy(x) THEN Ok(Zero)
    ELSE IF ~IsStr(x) THEN Raise("AttributeError")
    ELSE IF Strip(x.s) = <<>> THEN Ok(Zero)
    ELSE parse_amount_to_float(x)

\* The debit added instead of subtracted.
ApplyDebit_Adds(balance, debit_amount) == Add(balance, debit_amount)

\* current_balance += credit_amount ; current_balance -= debit_amount
ApplyCredit(balance, credit_amount) == Add(balance, credit_amount)
ApplyDebit(balance, debit_amount) == Sub(balance, debit_amount)

\* One iteration of the loop (lines 257-276) on `transaction` with the
\* running balance `balance`: the record appended, or the exception.
LoopBody(transaction, balance) ==
    IF ~IsDict(transaction) THEN Raise("AttributeError")
    ELSE LET credit == AmountOf(DictGet(transaction.d, "credit", Str(<<>>)))
             debit == AmountOf(DictGet(transaction.d, "debit", Str(<<>>)))
         IN  IF credit.kind # "ok" THEN credit
             ELSE IF debit.kind # "ok" THEN debit
             ELSE Ok(ApplyDebit(ApplyCredit(balance, credit.val), debit.val))

BalanceRecord(transaction, balance) ==
    [date |-> DictGet(transaction.d, "date", Str(<<>>)), balance |-> balance]

\* Lines 247-248.
StartingBalance(record) ==
    parse_amount_to_float(
        DictGet(record.d, "starting_balance", Str(<<"0">>)))

\* Lines 251 and 257.
Transactions(record) == Iterate(DictGet(record.d, "transactions", List(<<>>)))

---------------------------------------------------------------------------
(* Inputs of the pipeline *)

ShapeVals ==
    { Null, Str(<<>>), Str(<<"0">>), Num(0), Num(5), Bool(FALSE), Bool(TRUE),
      List(<<>>), List(<<Num(5), Null>>), EmptyDict }

SummaryVals ==
    { Null, Num(5), Str(<<"a">>), List(<<>>), EmptyDict,
      Str(KeyChars(SummaryKeys[1]) \o <<" ">> \o KeyChars(SummaryKeys[2])
          \o <<" ">> \o KeyChars(SummaryKeys[3])),
      List(<<Str(KeyChars(SummaryKeys[1])), Str(KeyChars(SummaryKeys[2])),
             Str(KeyChars(SummaryKeys[3]))>>),
      Dict([unique_days_with_nsf |-> Num(5)]),
      Dict([total_nsf_fees |-> Str(<<"a">>), unique_days_with_nsf |-> Num(5),
            max_nsfs_in_any_7day_window |-> Num(5)]) }

EventsVals == { List(<<>>), List(<<EmptyDict>>), Str(<<"a">>) }

NsfVals ==
    {Dict([events |-> e]) : e \in EventsVals}
    \cup {Dict([summary |-> y]) : y \in SummaryVals}
    \cup {Dict([events |-> e, summary |-> y]) : e \in EventsVals, y \in SummaryVals}

KeySets == {K \in SUBSET AllFields : Cardinality(K) <= MaxKeys}

\* A record with every field present and of the type of the data model.
FullRecord ==
    Dict([f \in AllFields |->
            CASE f \in ScalarFields -> Str(<<"a">>)
              [] f \in BoolFields -> Bool(TRUE)
              [] f \in ListFields -> List(<<EmptyDict>>)
              [] f = "nsf_data" -> DefaultNsf])

ShapeInputs ==
    {Null, Str(<<"a">>), Num(5), List(<<EmptyDict>>), FullRecord}
    \cup {Dict(f) : f \in UNION {[K -> ShapeVals] : K \in KeySets}}
    \cup {Dict([nsf_data |-> x]) : x \in NsfVals}
    \cup {Dict([nsf_data |-> x, fees |-> Null]) : x \in NsfVals}

CreditSamples ==
    { Str(<<" ">>), Str(<<"5">>), Str(<<"2", " ", "-">>), Str(<<"-">>), Num(5) }

DebitSamples == { Str(<<"5">>), Str(<<"(", "1", ")">>), Str(<<"a">>), Null }

Date1 == Str(<<"0", "1", "/", "0", "1">>)
Date2 == Str(<<"0", "1", "/", "0", "2">>)

TxnItems ==
    {Dict([date |-> Date1, credit |-> a, debit |-> Str(<<>>)]) : a \in CreditSamples}
    \cup {Dict([date |-> Date2, credit |-> Str(<<>>), debit |-> a,
                balance |-> Str(<<"9">>)]) : a \in DebitSamples}
    \cup { Dict([date |-> Date1, credit |-> Str(<<"5">>), debit |-> Str(<<"2">>)]),
           Dict([credit |-> Str(<<"5">>)]),
           Dict([date |-> Null, debit |-> Str(<<"5">>)]),
           Str(<<"a">>) }

TxnLists == UNION {[1..n -> TxnItems] : n \in 0..MaxTxns}

StartVals == { Str(<<"1", "-">>), Str(<<"-">>), Num(5) }

TxnInputs ==
    {Dict([transactions |-> List(l)]) : l \in TxnLists}
    \cup {Dict([starting_balance |-> b, transactions |-> List(l)]) :
            b \in StartVals, l \in TxnLists}

\* The record of the worked example: starting balance "1,000.00", a credit
\* of "500.00" on 01/01 and a debit of "200.00-" on 01/02.
ExampleRecord ==
    Dict([starting_balance |-> Str(<<"1", ",", "0", "0", "0", ".", "0", "0">>),
          transactions |-> List(<<
              Dict([date |-> Date1,
                    credit |-> Str(<<"5", "0", "0", ".", "0", "0">>),
                    debit |-> Str(<<>>)]),
              Dict([date |-> Date2,
                    credit |-> Str(<<>>),
                    debit |-> Str(<<"2", "0", "0", ".", "0", "0", "-">>)]) >>)])

\* Records handed to calculate_running_balances directly.
DirectRecords ==
    TxnInputs
    \cup {ExampleRecord, EmptyDict}
    \cup {Dict([starting_balance |-> Str(<<"5">>), transactions |-> x]) :
            x \in {Null, Str(<<"a">>), Str(<<>>), EmptyDict}}

\* Raw extraction results handed to the whole pipeline.
PipelineInputs ==
    TxnInputs
    \cup {ExampleRecord, EmptyDict, Null}
    \cup {Dict([nsf_data |-> Dict([summary |-> Null]), transactions |-> List(<<>>)])}

---------------------------------------------------------------------------
(* The per-document pipeline (lines 1066-1070) *)

AmountsIdle ==
    /\ given = Null
    /\ data = Null
    /\ passes = 0
    /\ amount = NotCalled

BalancesIdle ==
    /\ current_balance = Zero
    /\ balance_records = <<>>
    /\ idx = 0
    /\ error = "none"

\* normalized_data = normalize_output_structure(extracted_data)
Normalize ==
    /\ pc = "normalize"
    /\ LET r == normalize_output_structure(extracted_data)
       IN  /\ extracted_data' = r.arg
           /\ IF r.out.kind = "ok"
              THEN /\ normalized_data' = r.out
                   /\ pc' = "post_process"
                   /\ error' = error
              ELSE /\ normalized_data' = normalized_data
                   /\ pc' = "error"
                   /\ error' = r.out.exc
    /\ UNCHANGED << serviceVars, amountVars, processed_data, current_balance,
                    balance_records, idx >>

\* PostProcess handing over to rendering without the balances.
PostProcess_SkipsBalances ==
    /\ pc = "post_process"
    /\ processed_data' = Return(post_process_amounts(normalized_data.val))
    /\ pc' = "done"
    /\ UNCHANGED << serviceVars, amountVars, extracted_data, normalized_data,
                    current_balance, balance_records, idx, error >>

\* processed_data = post_process_amounts(normalized_data)
PostProcess ==
    /\ pc = "post_process"
    /\ processed_data' = Return(post_process_amounts(normalized_data.val))
    /\ pc' = "calculate"
    /\ UNCHANGED << serviceVars, amountVars, extracted_data, normalized_data,
                    current_balance, balance_records, idx, error >>

\* calculate_running_balances(processed_data), lines 247-254.
CalcStart ==
    /\ pc = "calculate"
    /\ LET b == StartingBalance(processed_data.val)
       IN  IF b.kind = "ok"
           THEN /\ current_balance' = b.val
                /\ pc' = "loop"
                /\ error' = error
           ELSE /\ current_balance' = current_balance
                /\ pc' = "error"
                /\ error' = b.exc
    /\ balance_records' = <<>>
    /\ idx' = 0
    /\ UNCHANGED << serviceVars, amountVars, extracted_data, normalized_data,
                    processed_data >>

\* One iteration of `for transaction in transactions`, lines 257-276.
CalcStep ==
    /\ pc = "loop"
    /\ LET txns == Transactions(processed_data.val)
       IN  IF txns.kind # "ok"
           THEN /\ pc' = "error"
                /\ error' = txns.exc
                /\ UNCHANGED << current_balance, balance_records, idx >>
           ELSE /\ idx < Len(txns.val.l)
                /\ LET transaction == txns.val.l[idx + 1]
                       r == LoopBody(transaction, current_balance)
                   IN  IF r.kind = "ok"
                       THEN /\ current_balance' = r.val
                            /\ balance_records' =
                                 Append(balance_records,
                                        BalanceRecord(transaction, r.val))
                            /\ idx' = idx + 1
                            /\ UNCHANGED << pc, error >>
                       ELSE /\ pc' = "error"
                            /\ error' = r.exc
                            /\ UNCHANGED << current_balance, balance_records, idx >>
    /\ UNCHANGED << serviceVars, amountVars, extracted_data, normalized_data,
                    processed_data >>

\* return balance_records, line 278.
CalcReturn ==
    /\ pc = "loop"
    /\ LET txns == Transactions(processed_data.val)
       IN  txns.kind = "ok" /\ idx = Len(txns.val.l)
    /\ pc' = "done"
    /\ UNCHANGED << serviceVars, amountVars, extracted_data, normalized_data,
                    processed_data, current_balance, balance_records, idx,
                    error >>

Init ==
    /\ AmountsIdle
    /\ BalancesIdle
    /\ PollIdle
    /\ LogIdle
    /\ BatchIdle
    /\ extracted_data \in PipelineInputs
    /\ normalized_data = NoResult
    /\ processed_data = NoResult
    /\ pc = "normalize"

Next == Normalize \/ PostProcess \/ CalcStart \/ CalcStep \/ CalcReturn

Spec == Init /\ [][Next]_vars

\* normalize_output_structure alone, on raw inputs of every shape.
InitNormalize ==
    /\ AmountsIdle
    /\ BalancesIdle
    /\ PollIdle
    /\ LogIdle
    /\ BatchIdle
    /\ extracted_data \in ShapeInputs
    /\ normalized_data = NoResult
    /\ processed_data = NoResult
    /\ pc = "normalize"

NextNormalize == Normalize

SpecNormalize == InitNormalize /\ [][NextNormalize]_vars

\* calculate_running_balances alone, on records handed to it directly.
InitBalances ==
    /\ AmountsIdle
    /\ BalancesIdle
    /\ PollIdle
    /\ LogIdle
    /\ BatchIdle
    /\ extracted_data = Null
    /\ normalized_data = NoResult
    /\ processed_data \in {Return(r) : r \in DirectRecords}
    /\ pc = "calculate"

NextBalances == CalcStart \/ CalcStep \/ CalcReturn

SpecBalances == InitBalances /\ [][NextBalances]_vars

---------------------------------------------------------------------------
(* poll_job_until_complete *)

\* timeout=600 and poll_interval=10, the defaults of line 47.
DefaultTimeout == 600
DefaultPollInterval == 10

\* The job statuses the loop compares with, lines 76 and 83.
StatusCompleted == Str(<<"C", "o", "m", "p", "l", "e", "t", "e", "d">>)
StatusFailed == Str(<<"f", "a", "i", "l", "e", "d">>)
StatusCancelled == Str(<<"c", "a", "n", "c", "e", "l", "l", "e", "d">>)

\* An HTTP response: ok is what raise_for_status() accepts, json whether
\* the body parses as JSON, body the parsed value.
Response(ok, body) == [kind |-> "http", ok |-> ok, json |-> TRUE, body |-> body]
NotJson(ok) == [kind |-> "http", ok |-> ok, json |-> FALSE, body |-> Null]

\* A network call issued and how it ended: "success", "status" (a response
\* raise_for_status() rejects) or "failed" (no response).
Call(req, outcome) == [req |-> req, outcome |-> outcome]
Outcome(r) == IF r.ok THEN "success" ELSE "status"

\* x[0] of line 64.
Subscript0(x) ==
    CASE x.t = "list" -> IF Len(x.l) = 0 THEN Throw("IndexError")
                         ELSE Return(x.l[1])
      [] x.t = "str" -> IF Len(x.s) = 0 THEN Throw("IndexError")
                        ELSE Return(Str(<<x.s[1]>>))
      [] x.t = "dict" -> Throw("KeyError")
      [] OTHER -> Throw("TypeError")

\* Lines 61-64: result = output.get("result"), replaced by
\* result.get("result")[0] when it is truthy.
ResultOf(output) ==
    LET result == DictGet(output.d, "result", Null)
    IN  IF ~Truthy(result) THEN Return(result)
        ELSE IF ~IsDict(result) THEN Throw("AttributeError")
        ELSE Subscript0(DictGet(result.d, "result", Null))

\* HandleResponse going on to sleep and fetch again after a non-success
\* status.
HandleResponse_RetriesOnStatus(r) ==
    IF ~r.json THEN Throw("JSONDecodeError")
    ELSE IF ~IsDict(r.body) THEN Throw("AttributeError")
    ELSE LET result == ResultOf(r.body)
             job_status == DictGet(r.body.d, "status", Null)
         IN  IF result.kind = "raise" THEN result
             ELSE IF ~r.ok THEN NoResult
             ELSE IF job_status = StatusCompleted THEN result
             ELSE IF job_status \in {StatusFailed, StatusCancelled}
             THEN Throw("RuntimeError")
             ELSE NoResult

\* Lines 60-86 on one response: kind "ok" returns val, kind "raise" raises
\* exc, kind "none" goes on to sleep.
HandleResponse(r) ==
    IF ~r.json THEN Throw("JSONDecodeError")
    ELSE IF ~IsDict(r.body) THEN Throw("AttributeError")
    ELSE LET result == ResultOf(r.body)
             job_status == DictGet(r.body.d, "status", Null)
         IN  IF result.kind = "raise" THEN result
             ELSE IF ~r.ok THEN Throw("HTTPError")
             ELSE IF job_status = StatusCompleted THEN result
             ELSE IF job_status \in {StatusFailed, StatusCancelled}
             THEN Throw("RuntimeError")
             ELSE NoResult

---------------------------------------------------------------------------
(* What the extraction service may answer *)

\* Extraction results: a record of the data model, one whose nsf_data
\* summary is null, one whose credit is a number, one whose cheque is a
\* string.
Payloads ==
    { ExampleRecord,
      Dict([nsf_data |-> Dict([summary |-> Null])]),
      Dict([transactions |-> List(<<Dict([credit |-> Num(5)])>>)]),
      Dict([cheques |-> List(<<Str(<<"a">>)>>)]) }

\* The "result" entry of a job status body: null, empty, a string, a
\* mapping wrapping no item, a mapping without "result", a wrapped record.
ResultVals ==
    { Null, EmptyDict, Str(<<"a">>),
      Dict([result |-> List(<<>>)]),
      Dict([error |-> Str(<<"a">>)]),
      Dict([result |-> List(<<ExampleRecord>>)]) }

\* The "status" entry of a job status body.
StatusVals ==
    { StatusCompleted, StatusFailed, StatusCancelled, Str(<<"P", "e", "n", "d", "i", "n", "g">>) }

\* Answers to GET /job/{job_id}.
StatusBodies ==
    {Dict([status |-> st]) : st \in StatusVals}
    \cup {Dict([status |-> st, result |-> x]) : st \in StatusVals, x \in ResultVals}
    \cup {Dict([status |-> StatusCompleted,
                result |-> Dict([result |-> List(<<x>>)])]) : x \in Payloads}
    \cup {EmptyDict}

StatusResponses ==
    {Response(TRUE, b) : b \in StatusBodies}
    \cup {Response(FALSE, b) :
            b \in {EmptyDict, Dict([status |-> StatusCompleted]),
                   Dict([status |-> Str(<<"P", "e", "n", "d", "i", "n", "g">>),
                         result |-> Dict([result |-> List(<<>>)])])}}
    \cup {NotJson(TRUE), NotJson(FALSE), Response(TRUE, List(<<>>))}

JobIds == {Str(<<"j", "1">>)}
Timeouts == {0, 25, DefaultTimeout}

---------------------------------------------------------------------------
(* The steps of poll_job_until_complete *)

\* Lines 52-55: end_time = time.time() + timeout, elapsed = 0. The clock
\* is read relative to the start of the call.
PollStart ==
    /\ poll_pc = "call"
    /\ latency' \in 0..MaxLatency
    /\ now' = 0
    /\ end_time' = 0 + timeout
    /\ elapsed' = 0
    /\ poll_pc' = "test"
    /\ UNCHANGED << job_id, timeout, poll_interval, resp, poll_out, poll_msg >>
    /\ UNCHANGED << amountVars, pipeVars, batchVars >>
    /\ UNCHANGED logVars

\* The loop test written `time.time() <= end_time`.
PollTest_Inclusive ==
    /\ poll_pc = "test"
    /\ IF now <= end_time
       THEN /\ poll_pc' = "fetch"
            /\ UNCHANGED << poll_out, poll_msg >>
       ELSE /\ poll_pc' = "raised"
            /\ poll_out' = Throw("TimeoutError")
            /\ poll_msg' = [job |-> job_id, status |-> Null, timeout |-> timeout]
    /\ UNCHANGED << job_id, timeout, poll_interval, latency, now, end_time,
                    elapsed, resp >>
    /\ UNCHANGED << amountVars, pipeVars, batchVars >>
    /\ UNCHANGED logVars

\* Line 57, `while time.time() < end_time`, and line 91 when it is false.
PollTest ==
    /\ poll_pc = "test"
    /\ IF now < end_time
       THEN /\ poll_pc' = "fetch"
            /\ UNCHANGED << poll_out, poll_msg >>
       ELSE /\ poll_pc' = "raised"
            /\ poll_out' = Throw("TimeoutError")
            /\ poll_msg' = [job |-> job_id, status |-> Null, timeout |-> timeout]
    /\ UNCHANGED << job_id, timeout, poll_interval, latency, now, end_time,
                    elapsed, resp >>
    /\ UNCHANGED << amountVars, pipeVars, batchVars >>
    /\ UNCHANGED logVars

\* Line 58, requests.get: a response arrives, or the request itself fails.
PollFetch ==
    /\ poll_pc = "fetch"
    /\ now' = now + latency
    /\ \/ /\ resp' \in StatusResponses
          /\ calls' = Append(calls, Call("GET /job", Outcome(resp')))
          /\ poll_pc' = "fetched"
          /\ UNCHANGED poll_out
       \/ /\ resp' = resp
          /\ calls' = Append(calls, Call("GET /job", "failed"))
          /\ poll_pc' = "raised"
          /\ poll_out' = Throw("ConnectionError")
    /\ UNCHANGED submit_resp
    /\ UNCHANGED << job_id, timeout, poll_interval, latency, end_time,
                    elapsed, poll_msg >>
    /\ UNCHANGED << amountVars, pipeVars, batchVars >>

\* Lines 60-86 on the response fetched.
PollHandle ==
    /\ poll_pc = "fetched"
    /\ LET r == HandleResponse(resp)
       IN  /\ poll_pc' = CASE r.kind = "ok" -> "returned"
                           [] r.kind = "raise" -> "raised"
                           [] OTHER -> "sleep"
           /\ poll_out' = r
           /\ poll_msg' = IF r = Throw("RuntimeError")
                          THEN [job |-> job_id,
                                status |-> DictGet(resp.body.d, "status", Null),
                                timeout |-> 0]
                          ELSE poll_msg
    /\ UNCHANGED << job_id, timeout, poll_interval, latency, now, end_time,
                    elapsed, resp >>
    /\ UNCHANGED << amountVars, pipeVars, batchVars >>
    /\ UNCHANGED logVars

\* Lines 88-89: time.sleep(poll_interval), elapsed += poll_interval.
PollSleep ==
    /\ poll_pc = "sleep"
    /\ now' = now + poll_interval
    /\ elapsed' = elapsed + poll_interval
    /\ poll_pc' = "test"
    /\ UNCHANGED << job_id, timeout, poll_interval, latency, end_time, resp,
                    poll_out, poll_msg >>
    /\ UNCHANGED << amountVars, pipeVars, batchVars >>
    /\ UNCHANGED logVars

\* poll_job_until_complete alone, called for one job.
InitPoll ==
    /\ AmountsIdle
    /\ BalancesIdle
    /\ extracted_data = Null
    /\ normalized_data = NoResult
    /\ processed_data = NoResult
    /\ pc = "idle"
    /\ BatchIdle
    /\ LogIdle
    /\ job_id \in JobIds
    /\ timeout \in Timeouts
    /\ poll_interval = DefaultPollInterval
    /\ latency = 0
    /\ now = 0
    /\ end_time = 0
    /\ elapsed = 0
    /\ resp = NoResponse
    /\ poll_pc = "call"
    /\ poll_out = NoResult
    /\ poll_msg = NoMsg

NextPoll == PollStart \/ PollTest \/ PollFetch \/ PollHandle \/ PollSleep

SpecPoll == InitPoll /\ [][NextPoll]_vars

\* The call keeps running: Python executes the next statement, and
\* time.sleep returns.
SpecPollFair == InitPoll /\ [][NextPoll]_vars /\ WF_vars(NextPoll)

---------------------------------------------------------------------------
(* One document of the batch: upload, submit, poll, normalize, render *)

\* x[key] for a string key, lines 40 and 44.
Subscript(x, key) ==
    IF x.t = "dict"
    THEN IF key \in DOMAIN x.d THEN Return(x.d[key]) ELSE Throw("KeyError")
    ELSE Throw("TypeError")

\* Lines 35-36 and 320-321: raise_for_status(), then json().
CheckedJson(r) ==
    IF ~r.ok THEN Throw("HTTPError")
    ELSE IF ~r.json THEN Throw("JSONDecodeError")
    ELSE Return(r.body)

\* JobIdOf testing only that the key job_id is present.
JobIdOf_PresenceOnly(resp_json) ==
    IF ~IsDict(resp_json) THEN Throw("AttributeError")
    ELSE IF "job_id" \notin DOMAIN resp_json.d THEN Throw("RuntimeError")
    ELSE Return(resp_json.d["job_id"])

\* Lines 323-325: job_id = resp_json.get("job_id"), required to be truthy.
JobIdOf(resp_json) ==
    IF ~IsDict(resp_json) THEN Throw("AttributeError")
    ELSE LET j == DictGet(resp_json.d, "job_id", Null)
         IN  IF ~Truthy(j) THEN Throw("RuntimeError") ELSE Return(j)

\* Lines 1110-1111 and 1131-1132: the cheque filter reads c.get and
\* c.get('description').strip().
ChequeReadable(c) ==
    /\ IsDict(c)
    /\ LET description == DictGet(c.d, "description", Null)
       IN  Truthy(description) => IsStr(description)

\* Lines 1078-1194: what rendering the tabs of processed_data raises.
RenderOutcome(p) ==
    LET cheques == DictGet(p.d, "cheques", List(<<>>))
        nsf_data == DictGet(p.d, "nsf_data", EmptyDict)
        nsf_events == DictGet(nsf_data.d, "events", List(<<>>))
        nsf_summary == DictGet(nsf_data.d, "summary", EmptyDict)
        total == DictGet(nsf_summary.d, "total_nsf_fees", Num(0))
    IN  IF \E i \in 1..Len(cheques.l) : ~ChequeReadable(cheques.l[i])
        THEN Throw("AttributeError")
        ELSE IF nsf_events.t \in {"null", "num", "bool"} THEN Throw("TypeError")
        ELSE IF ~IsDict(nsf_summary) THEN Throw("AttributeError")
        ELSE IF IsStr(total) THEN Throw("ValueError")
        ELSE IF total.t \in {"null", "list", "dict"} THEN Throw("TypeError")
        ELSE Return(Null)

\* An except clause that catches RuntimeError only.
IsException_RuntimeErrorOnly(e) == e = "RuntimeError"

\* `except Exception` of line 1196: the exceptions it catches.
IsException(e) ==
    e \in {"FileNotFoundError", "ConnectionError", "HTTPError",
           "JSONDecodeError", "KeyError", "TypeError", "AttributeError",
           "IndexError", "ValueError", "RuntimeError", "TimeoutError",
           "OSError"}

\* Answers to POST /upload, to the PUT of the file and to POST /extract.
UploadResponses ==
    { Response(TRUE, Dict([presigned_url |-> Str(<<"u">>),
                           file_id |-> Str(<<"f">>)])),
      Response(TRUE, Dict([file_id |-> Str(<<"f">>)])),
      Response(TRUE, Dict([presigned_url |-> Str(<<"u">>)])),
      Response(TRUE, List(<<>>)),
      Response(FALSE, EmptyDict),
      NotJson(TRUE) }

PutResponses == { Response(TRUE, Null), Response(FALSE, Null) }

SubmitResponses ==
    { Response(TRUE, Dict([job_id |-> Str(<<"j", "1">>)])),
      Response(TRUE, Dict([job_id |-> Str(<<>>)])),
      Response(TRUE, Dict([job_id |-> Null])),
      Response(TRUE, EmptyDict),
      Response(TRUE, List(<<>>)),
      Response(FALSE, Dict([job_id |-> Str(<<"j", "1">>)])),
      NotJson(TRUE) }

\* The exception e leaves the try block of line 1050.
Fail(e) ==
    /\ pc' = "error"
    /\ error' = e

\* Lines 1041-1048: the next uploaded file is written to a temporary file.
\* This is outside the try block: an error here ends the script run.
BeginFile ==
    /\ pc = "begin"
    /\ \E outcome \in {"written", "not_created", "not_written"} :
         /\ tmp_files' = IF outcome = "not_created" THEN tmp_files
                         ELSE tmp_files \cup {file_idx}
         /\ IF outcome = "written"
            THEN pc' = "upload" /\ error' = error
            ELSE pc' = "crashed" /\ error' = "OSError"
    /\ UNCHANGED << amountVars, pollVars, extracted_data, normalized_data,
                    processed_data, current_balance, balance_records, idx,
                    num_files, file_idx, upload_form, document_url, reports >>
    /\ UNCHANGED logVars

\* UploadPost testing the existence of the file after the POST /upload.
UploadPost_ChecksAfterRequest ==
    /\ pc = "upload"
    /\ IF FALSE
       THEN Fail("FileNotFoundError") /\ UNCHANGED << upload_form, calls >>
       ELSE \/ /\ calls' = Append(calls, Call("POST /upload", "failed"))
               /\ Fail("ConnectionError")
               /\ UNCHANGED upload_form
            \/ \E r \in UploadResponses :
                 LET form == CheckedJson(r)
                 IN  /\ calls' = Append(calls, Call("POST /upload", Outcome(r)))
                     /\ IF file_idx \notin tmp_files
                        THEN Fail("FileNotFoundError") /\ UNCHANGED upload_form
                        ELSE IF form.kind = "ok"
                        THEN /\ upload_form' = form.val
                             /\ pc' = "put"
                             /\ error' = error
                        ELSE Fail(form.exc) /\ UNCHANGED upload_form
    /\ UNCHANGED << amountVars, pollVars, extracted_data, normalized_data,
                    processed_data, current_balance, balance_records, idx,
                    num_files, file_idx, tmp_files, document_url, reports,
                    submit_resp >>

\* upload_file_to_reducto, lines 26-36: the file must exist, then
\* POST /upload.
UploadPost ==
    /\ pc = "upload"
    /\ IF file_idx \notin tmp_files
       THEN Fail("FileNotFoundError") /\ UNCHANGED << upload_form, calls >>
       ELSE \/ /\ calls' = Append(calls, Call("POST /upload", "failed"))
               /\ Fail("ConnectionError")
               /\ UNCHANGED upload_form
            \/ \E r \in UploadResponses :
                 LET form == CheckedJson(r)
                 IN  /\ calls' = Append(calls, Call("POST /upload", Outcome(r)))
                     /\ IF form.kind = "ok"
                        THEN /\ upload_form' = form.val
                             /\ pc' = "put"
                             /\ error' = error
                        ELSE Fail(form.exc) /\ UNCHANGED upload_form
    /\ UNCHANGED << amountVars, pollVars, extracted_data, normalized_data,
                    processed_data, current_balance, balance_records, idx,
                    num_files, file_idx, tmp_files, document_url, reports,
                    submit_resp >>

\* upload_file_to_reducto, lines 39-44: PUT the bytes to
\* upload_form["presigned_url"], return upload_form["file_id"].
UploadPut ==
    /\ pc = "put"
    /\ IF file_idx \notin tmp_files
       THEN Fail("FileNotFoundError") /\ UNCHANGED << document_url, calls >>
       ELSE IF Subscript(upload_form, "presigned_url").kind # "ok"
       THEN Fail(Subscript(upload_form, "presigned_url").exc)
            /\ UNCHANGED << document_url, calls >>
       ELSE \/ /\ calls' = Append(calls, Call("PUT", "failed"))
               /\ Fail("ConnectionError")
               /\ UNCHANGED document_url
            \/ \E r \in PutResponses :
                 LET id == Subscript(upload_form, "file_id")
                 IN  /\ calls' = Append(calls, Call("PUT", Outcome(r)))
                     /\ IF ~r.ok
                        THEN Fail("HTTPError") /\ UNCHANGED document_url
                        ELSE IF id.kind # "ok"
                        THEN Fail(id.exc) /\ UNCHANGED document_url
                        ELSE /\ document_url' = id.val
                             /\ pc' = "submit"
                             /\ error' = error
    /\ UNCHANGED << amountVars, pollVars, extracted_data, normalized_data,
                    processed_data, current_balance, balance_records, idx,
                    num_files, file_idx, tmp_files, upload_form, reports,
                    submit_resp >>

\* extract_with_enhanced_ocr_async, lines 288-330: POST /extract, take the
\* job id, call poll_job_until_complete with its default timeout and
\* interval.
Submit ==
    /\ pc = "submit"
    /\ \/ /\ calls' = Append(calls, Call("POST /extract", "failed"))
          /\ Fail("ConnectionError")
          /\ UNCHANGED << pollVars, submit_resp >>
       \/ \E r \in SubmitResponses :
            LET resp_json == CheckedJson(r)
                id == JobIdOf(resp_json.val)
            IN  /\ calls' = Append(calls, Call("POST /extract", Outcome(r)))
                /\ submit_resp' = r
                /\ IF resp_json.kind # "ok"
                   THEN Fail(resp_json.exc) /\ UNCHANGED pollVars
                   ELSE IF id.kind # "ok"
                   THEN Fail(id.exc) /\ UNCHANGED pollVars
                   ELSE /\ job_id' = id.val
                        /\ timeout' = DefaultTimeout
                        /\ poll_interval' = DefaultPollInterval
                        /\ poll_pc' = "call"
                        /\ pc' = "poll"
                        /\ error' = error
                        /\ UNCHANGED << latency, now, end_time, elapsed, resp,
                                        poll_out, poll_msg >>
    /\ UNCHANGED << amountVars, batchVars, extracted_data, normalized_data,
                    processed_data, current_balance, balance_records, idx >>

\* poll_job_until_complete is over and its frame is gone.
PollOver ==
    /\ job_id' = Null
    /\ timeout' = 0
    /\ poll_interval' = 0
    /\ latency' = 0
    /\ now' = 0
    /\ end_time' = 0
    /\ elapsed' = 0
    /\ resp' = NoResponse
    /\ poll_pc' = "idle"
    /\ poll_out' = NoResult
    /\ poll_msg' = NoMsg

\* Lines 330-332 and 1056: the polled result becomes extracted_data.
ExtractReturn ==
    /\ pc = "poll"
    /\ poll_pc = "returned"
    /\ extracted_data' = poll_out.val
    /\ pc' = "normalize"
    /\ PollOver
    /\ UNCHANGED << amountVars, batchVars, normalized_data, processed_data,
                    current_balance, balance_records, idx, error >>
    /\ UNCHANGED logVars

\* Line 330: the exception of poll_job_until_complete leaves the try block.
ExtractRaise ==
    /\ pc = "poll"
    /\ poll_pc = "raised"
    /\ Fail(poll_out.exc)
    /\ PollOver
    /\ UNCHANGED << amountVars, batchVars, extracted_data, normalized_data,
                    processed_data, current_balance, balance_records, idx >>
    /\ UNCHANGED logVars

\* Lines 1072-1194: the success message, then the tabs and the downloads.
Render ==
    /\ pc = "done"
    /\ reports' = Append(reports, [file |-> file_idx, kind |-> "success"])
    /\ LET r == RenderOutcome(processed_data.val)
       IN  IF r.kind = "ok"
           THEN pc' = "finally" /\ error' = error
           ELSE Fail(r.exc)
    /\ UNCHANGED << amountVars, pollVars, extracted_data, normalized_data,
                    processed_data, current_balance, balance_records, idx,
                    num_files, file_idx, tmp_files, upload_form, document_url >>
    /\ UNCHANGED logVars

\* Lines 1196-1199: the error is shown for this document. An exception the
\* clause does not catch ends the script run, after the finally block.
Except ==
    /\ pc = "error"
    /\ IF IsException(error)
       THEN /\ reports' = Append(reports, [file |-> file_idx, kind |-> "error"])
            /\ pc' = "finally"
            /\ error' = "none"
            /\ UNCHANGED tmp_files
       ELSE /\ tmp_files' = tmp_files \ {file_idx}
            /\ pc' = "crashed"
            /\ UNCHANGED << reports, error >>
    /\ UNCHANGED << amountVars, pollVars, extracted_data, normalized_data,
                    processed_data, current_balance, balance_records, idx,
                    num_files, file_idx, upload_form, document_url >>
    /\ UNCHANGED logVars

\* Lines 1201-1206 and back to line 1041: the temporary file is unlinked,
\* a failure to unlink is swallowed, and the loop takes the next file. The
\* names still bound to this document's values are not read again before
\* they are assigned, so they are cleared here; the log of calls is kept
\* per document and starts empty for the next one.
Finally ==
    /\ pc = "finally"
    /\ \E unlinked \in BOOLEAN :
         tmp_files' = IF unlinked THEN tmp_files \ {file_idx} ELSE tmp_files
    /\ IF file_idx < num_files
       THEN file_idx' = file_idx + 1 /\ pc' = "begin"
       ELSE file_idx' = file_idx /\ pc' = "after_loop"
    /\ extracted_data' = Null
    /\ normalized_data' = NoResult
    /\ processed_data' = NoResult
    /\ current_balance' = Zero
    /\ balance_records' = <<>>
    /\ idx' = 0
    /\ upload_form' = Null
    /\ document_url' = Null
    /\ calls' = <<>>
    /\ submit_resp' = NoResponse
    /\ UNCHANGED << amountVars, pollVars, num_files, reports, error >>

\* Lines 1208-1209: the closing message of the batch.
AllProcessed ==
    /\ pc = "after_loop"
    /\ reports' = Append(reports, [file |-> 0, kind |-> "all_processed"])
    /\ pc' = "finished"
    /\ UNCHANGED << amountVars, pollVars, extracted_data, normalized_data,
                    processed_data, current_balance, balance_records, idx,
                    error, num_files, file_idx, tmp_files, upload_form,
                    document_url >>
    /\ UNCHANGED logVars

\* The Extract Data button pressed on one to MaxFiles uploaded files.
InitBatch ==
    /\ AmountsIdle
    /\ BalancesIdle
    /\ PollIdle
    /\ LogIdle
    /\ extracted_data = Null
    /\ normalized_data = NoResult
    /\ processed_data = NoResult
    /\ pc = "begin"
    /\ num_files \in 1..MaxFiles
    /\ file_idx = 1
    /\ tmp_files = {}
    /\ upload_form = Null
    /\ document_url = Null
    /\ reports = <<>>

NextBatch ==
    \/ BeginFile \/ UploadPost \/ UploadPut \/ Submit
    \/ PollStart \/ PollTest \/ PollFetch \/ PollHandle \/ PollSleep
    \/ ExtractReturn \/ ExtractRaise
    \/ Normalize \/ PostProcess \/ CalcStart \/ CalcStep \/ CalcReturn
    \/ Render \/ Except \/ Finally \/ AllProcessed

SpecBatch == InitBatch /\ [][NextBatch]_vars

---------------------------------------------------------------------------
(* Properties *)

\* C1: on the worked example (starting balance "1,000.00", credit "500.00"
\* on 01/01, debit "200.00-" on 01/02) calculate_running_balances returns
\* [{01/01, 1500.0}, {01/02, 1300.0}]: the trailing-minus debit lowers the
\* balance by its magnitude.
C1_ExampleBalances ==
    (pc = "done" /\ processed_data = Return(ExampleRecord))
        => balance_records = << [date |-> Date1, balance |-> Dec(1500, 0)],
                                [date |-> Date2, balance |-> Dec(1300, 0)] >>

\* What the code returns on the worked example: the second balance is 1700.0.
C1_ExampleReached ==
    /\ pc = "done"
    /\ processed_data = Return(ExampleRecord)
    /\ balance_records = << [date |-> Date1, balance |-> Dec(1500, 0)],
                            [date |-> Date2, balance |-> Dec(1700, 0)] >>

\* C2: parse_amount_to_float never raises: whatever its input, the call
\* returns a float.
C2_ParseNeverRaises == amount.kind # "raise"

\* C3: normalize_output_structure never raises, and the record it returns
\* holds all fourteen fields.
C3_NormalizeTotal ==
    /\ pc # "error"
    /\ normalized_data.kind = "ok" =>
         /\ IsDict(normalized_data.val)
         /\ AllFields \subseteq DOMAIN normalized_data.val.d

\* The types the data model gives the fields of a BankStatementRecord.
C4_SummaryTyped(x) ==
    /\ IsDict(x)
    /\ \A i \in 1..Len(SummaryKeys) :
         /\ HasKey(x.d, SummaryKeys[i])
         /\ x.d[SummaryKeys[i]].t = "num"

C4_NsfTyped(x) ==
    /\ IsDict(x)
    /\ HasKey(x.d, "events") /\ IsList(x.d["events"])
    /\ HasKey(x.d, "summary") /\ C4_SummaryTyped(x.d["summary"])

C4_FieldTyped(f, x) ==
    CASE f \in ScalarFields -> x.t \in {"str", "null"}
      [] f \in BoolFields -> x.t = "bool"
      [] f \in ListFields -> x.t = "list"
      [] f = "nsf_data" -> C4_NsfTyped(x)

\* C4: whenever normalize_output_structure returns, every field of the
\* result has the type of the data model: scalars are strings or null, the
\* two flags are booleans, the four list fields are sequences, nsf_data is
\* a mapping with a sequence `events` and a `summary` of three numbers.
C4_NormalizeTyped ==
    normalized_data.kind = "ok" =>
        \A f \in AllFields :
            /\ HasKey(normalized_data.val.d, f)
            /\ C4_FieldTyped(f, normalized_data.val.d[f])

\* C5: calculate_running_balances has no error condition on a record that
\* came out of normalize_output_structure and post_process_amounts.
C5_BalancesNeverRaise == processed_data.kind = "ok" => pc # "error"

\* The balance after the first i transactions of `record`, as the claim
\* states it: b_0 is the parsed starting balance (0.0 when absent), and
\* b_i = b_(i-1) + parse(credit_i) - parse(debit_i), an absent credit or
\* debit counting 0.
C6_Amount(transaction, key) ==
    IF HasKey(transaction.d, key)
    THEN parse_amount_to_float(transaction.d[key]).val
    ELSE Zero

RECURSIVE C6_Balance(_, _)
C6_Balance(record, i) ==
    IF i = 0
    THEN IF HasKey(record.d, "starting_balance")
         THEN parse_amount_to_float(record.d["starting_balance"]).val
         ELSE Zero
    ELSE LET transaction == record.d["transactions"].l[i]
         IN  Sub(Add(C6_Balance(record, i - 1), C6_Amount(transaction, "credit")),
                 C6_Amount(transaction, "debit"))

C6_Date(transaction) ==
    IF HasKey(transaction.d, "date") THEN transaction.d["date"] ELSE Str(<<>>)

C6_HasTransactions(record) ==
    HasKey(record.d, "transactions") /\ IsList(record.d["transactions"])

\* C6: calculate_running_balances emits one record per transaction, in
\* order; record i carries the date of transaction i (the empty string when
\* absent) and the balance b_i of the recurrence above, in which the
\* transaction's own balance string does not occur; when it returns, every
\* transaction has its record.
C6_RunningBalances ==
    (pc \in {"loop", "done"} /\ C6_HasTransactions(processed_data.val)) =>
        LET record == processed_data.val
            txns == record.d["transactions"].l
        IN  /\ Len(balance_records) = idx
            /\ idx <= Len(txns)
            /\ pc = "done" => idx = Len(txns)
            /\ current_balance = C6_Balance(record, idx)
            /\ \A i \in 1..idx :
                 balance_records[i] =
                     [date |-> C6_Date(txns[i]), balance |-> C6_Balance(record, i)]

\* A returned list of two records whose first transaction has both a
\* credit and a debit and whose second one has no date.
C6_Witness ==
    /\ pc = "done"
    /\ processed_data.val =
         Dict([starting_balance |-> Str(<<"1", "-">>),
               transactions |-> List(<<
                   Dict([date |-> Date1, credit |-> Str(<<"5">>),
                         debit |-> Str(<<"2">>)]),
                   Dict([credit |-> Str(<<"5">>)]) >>)])
    /\ balance_records = << [date |-> Date1, balance |-> Dec(2, 0)],
                            [date |-> Str(<<>>), balance |-> Dec(7, 0)] >>

\* r is s without its leading and trailing whitespace.
C7_Trimmed(r, s) ==
    /\ r = <<>> \/ (r[1] \notin Whitespace /\ r[Len(r)] \notin Whitespace)
    /\ \E i \in 0..(Len(s) - Len(r)) :
         /\ SubSeq(s, i + 1, i + Len(r)) = r
         /\ AllIn(SubSeq(s, 1, i), Whitespace)
         /\ AllIn(SubSeq(s, i + Len(r) + 1, Len(s)), Whitespace)

\* A string leaf that, trimmed, matches neither pattern, after one call.
C7_Unmatched ==
    /\ passes = 1
    /\ IsStr(given)
    /\ ~TrailingMinusMatch(Strip(given.s))
    /\ ~ParenMatch(Strip(given.s))

\* C7 as stated: post_process_amounts returns a string leaf that matches
\* neither pattern exactly as given, whitespace included.
C7_UnmatchedUnchanged == C7_Unmatched => data = given

\* C7 as amended: a string leaf that matches neither pattern is returned
\* without its leading and trailing whitespace and otherwise character for
\* character; a blank string is returned exactly as given.
C7_UnmatchedTrimmed ==
    C7_Unmatched =>
        /\ IsStr(data)
        /\ IF AllIn(given.s, Whitespace) THEN data = given
           ELSE C7_Trimmed(data.s, given.s)

C7_Witness ==
    /\ passes = 1
    /\ given = Str(<<" ", "a", " ">>)
    /\ data = Str(<<"a">>)

\* C8: parse_amount_to_float ignores currency symbols wherever they occur:
\* the value it returns for a string is the value it returns for the
\* string with every currency symbol deleted.
C8_SymbolsIgnored ==
    (passes = 0 /\ IsStr(given) /\ amount.kind = "ok") =>
        LET bare == parse_amount_to_float(Str(Remove(given.s, CurrencySymbols)))
        IN  bare.kind = "ok" => amount.val = bare.val

\* "$ 5-" parsed: 0.0, although "5-" is -5.0.
C8_Reached ==
    /\ passes = 0
    /\ given = Str(<<"$", " ", "5", "-">>)
    /\ amount = Ok(Zero)
    /\ parse_amount_to_float(Str(<<"5", "-">>)) = Ok(Dec(-5, 0))

\* A numeral of the claim: digits and commas, an optional decimal part (a
\* point and digits), at least one digit.
C9_Numeral(n) ==
    /\ \E i \in 1..Len(n) : n[i] \in Digit
    /\ \E k \in 1..Len(n) :
         /\ AllIn(SubSeq(n, 1, k), DigitOrComma)
         /\ \/ k = Len(n)
            \/ /\ n[k + 1] = "."
               /\ AllIn(SubSeq(n, k + 2, Len(n)), Digit)

RECURSIVE C9_Nat(_)
C9_Nat(s) ==
    IF s = <<>> THEN 0
    ELSE DigitVal(Head(s)) * Pow10(Len(s) - 1) + C9_Nat(Tail(s))

C9_NotComma(c) == c # ","

\* The numeral n, commas removed, read as a decimal.
C9_Value(n) ==
    LET b == SelectSeq(n, C9_NotComma)
        p == IF \E i \in 1..Len(b) : b[i] = "."
             THEN CHOOSE i \in 1..Len(b) : b[i] = "."
             ELSE Len(b) + 1
        ip == SubSeq(b, 1, p - 1)
        fp == SubSeq(b, p + 1, Len(b))
    IN  Dec(C9_Nat(ip) * Pow10(Len(fp)) + C9_Nat(fp), Len(fp))

\* Optional whitespace, one of the three minus signs, optional whitespace.
C9_SignTail(r) ==
    \E j \in 1..Len(r) :
        /\ r[j] \in MinusSigns
        /\ \A i \in 1..Len(r) : i # j => r[i] \in Whitespace

C10_Idempotent == passes >= 2 => data = post_process_amounts(given)

C10_Witness ==
    /\ passes = 2
    /\ given = List(<<Str(<<"5", " ", "U+2212", " ">>), Str(<<" ", "(", "5", ")">>)>>)
    /\ data = List(<<Str(<<"5", "-">>), Str(<<"(", "5", ")">>)>>)

\* y has the JSON shape of x: the same type, the same keys, the same
\* length and order; leaves that are not strings are equal.
RECURSIVE C11_SameShape(_, _)
C11_SameShape(x, y) ==
    /\ x.t = y.t
    /\ CASE x.t = "dict" ->
              /\ DOMAIN x.d = DOMAIN y.d
              /\ \A k \in DOMAIN x.d : C11_SameShape(x.d[k], y.d[k])
         [] x.t = "list" ->
              /\ Len(x.l) = Len(y.l)
              /\ \A i \in 1..Len(x.l) : C11_SameShape(x.l[i], y.l[i])
         [] x.t = "str" -> TRUE
         [] OTHER -> x = y

\* C11: post_process_amounts preserves JSON shape: the result has the keys,
\* the lengths and the order of the input, and every leaf that is not a
\* string is returned unchanged.
C11_ShapePreserved == passes >= 1 => C11_SameShape(given, data)

\* A mapping holding a sequence with a null item, whose string leaf changed.
C11_Witness ==
    /\ passes = 1
    /\ given = Dict([debit |-> Str(<<"5", " ", "U+2212", " ">>),
                     items |-> List(<<Null>>)])
    /\ data = Dict([debit |-> Str(<<"5", "-">>), items |-> List(<<Null>>)])

\* C12: post_process_amounts does not change what an amount string parses
\* to: parse_amount_to_float has the same outcome on the fixed string as on
\* the string itself.
C12_ValuePreserved ==
    (passes = 1 /\ IsStr(given) /\ amount.kind # "none") =>
        amount = parse_amount_to_float(given)

C12_Witness ==
    /\ passes = 1
    /\ given = Str(<<"5", " ", "U+2013">>)
    /\ data = Str(<<"5", "-">>)
    /\ amount = Ok(Dec(-5, 0))

\* The number of the two patterns: digits and commas, then an optional
\* point and digits.
C13_Number(n) ==
    \E k \in 1..Len(n) :
        /\ AllIn(SubSeq(n, 1, k), DigitOrComma)
        /\ \/ k = Len(n)
           \/ /\ n[k + 1] = "."
              /\ AllIn(SubSeq(n, k + 2, Len(n)), Digit)

\* C13: a string leaf that, trimmed, is a number, optional whitespace, one
\* of the three minus signs and optional whitespace comes back as the
\* number, commas kept, followed by an ASCII '-'; one that, trimmed, is a
\* number in parentheses comes back as "(" number ")"; "50.00 -" becomes
\* "50.00-" and "(50.00)" stays "(50.00)".
C13_CanonicalForms ==
    (passes = 1 /\ IsStr(given)) =>
        LET t == Strip(given.s)
        IN  /\ \A k \in 1..(Len(t) - 1) :
                 (C13_Number(SubSeq(t, 1, k)) /\ C9_SignTail(SubSeq(t, k + 1, Len(t))))
                 => data = Str(SubSeq(t, 1, k) \o <<"-">>)
            /\ (Len(t) >= 3 /\ t[1] = "(" /\ t[Len(t)] = ")"
                  /\ C13_Number(SubSeq(t, 2, Len(t) - 1)))
                 => data = Str(t)
            /\ given = Str(<<"5", "0", ".", "0", "0", " ", "-">>)
                 => data = Str(<<"5", "0", ".", "0", "0", "-">>)
            /\ given = Str(<<"(", "5", "0", ".", "0", "0", ")">>)
                 => data = given

C13_Witness ==
    /\ passes = 1
    /\ given = Str(<<"5", "0", ".", "0", "0", " ", "-">>)
    /\ data = Str(<<"5", "0", ".", "0", "0", "-">>)

\* The step of normalize_output_structure that returns: its argument before
\* the call is extracted_data, its result is normalized_data'.
C14_Returns == pc = "normalize" /\ pc' = "post_process"

\* The value of key f in the argument, and whether the key is there.
C14_Source(f) == IF IsDict(extracted_data) /\ f \in DOMAIN extracted_data.d
                 THEN extracted_data.d[f] ELSE Null
C14_Present(f) == IsDict(extracted_data) /\ f \in DOMAIN extracted_data.d

\* C14: normalize_output_structure collapses a falsy-but-meaningful string
\* scalar to null: an account_number whose source value is the digit string
\* "0" comes out as null.
C14_ZeroCollapsed ==
    [][(C14_Returns /\ C14_Source("account_number") = Str(<<"0">>))
         => normalized_data'.val.d["account_number"] = Null]_vars

\* C14 as amended: a non-empty string scalar is kept whatever its content,
\* so an account_number "0" comes out as "0"; the scalar values that come
\* out as null are the falsy ones (the empty string, null, the number 0,
\* false, the empty sequence and the empty mapping).
C14_ZeroKept ==
    [][C14_Returns =>
         /\ C14_Source("account_number") = Str(<<"0">>)
              => normalized_data'.val.d["account_number"] = Str(<<"0">>)
         /\ C14_Source("account_number")
              \in {Str(<<>>), Null, Num(0), Bool(FALSE), List(<<>>), EmptyDict}
              => normalized_data'.val.d["account_number"] = Null]_vars

C14_Witness ==
    /\ pc = "post_process"
    /\ extracted_data = Dict([account_number |-> Str(<<"0">>)])
    /\ normalized_data.val.d["account_number"] = Str(<<"0">>)

\* C15: for each of the seven scalar fields the output is the source value
\* when the key is present with a non-empty string, and null when the key
\* is absent or its value is null or the empty string.
C15_ScalarFields ==
    [][C14_Returns =>
         \A f \in {"company_name", "bank_name", "currency", "statement_period",
                   "account_number", "starting_balance", "ending_balance"} :
            LET x == C14_Source(f)
                y == normalized_data'.val.d[f]
            IN  /\ (C14_Present(f) /\ x.t = "str" /\ x.s # <<>>) => y = x
                /\ (~C14_Present(f) \/ x = Null \/ x = Str(<<>>)) => y = Null]_vars

C15_Witness ==
    /\ pc = "post_process"
    /\ extracted_data = Dict([currency |-> Str(<<>>)])
    /\ normalized_data.val.d["currency"] = Null
    /\ normalized_data.val.d["bank_name"] = Null

\* C16: for is_bank_statement and is_application_form the output equals the
\* source value when the key is present (a present false stays false, a
\* present true stays true) and is false when the key is absent.
C16_BoolFields ==
    [][C14_Returns =>
         \A f \in {"is_bank_statement", "is_application_form"} :
            normalized_data'.val.d[f] =
                IF C14_Present(f) THEN extracted_data.d[f] ELSE Bool(FALSE)]_vars

C16_Witness ==
    /\ pc = "post_process"
    /\ extracted_data = Dict([is_bank_statement |-> Null])
    /\ normalized_data.val.d["is_bank_statement"] = Null
    /\ normalized_data.val.d["is_application_form"] = Bool(FALSE)

\* C17: for transactions, daily_ending_balance, cheques and fees the output
\* is the source value, items, number and order unchanged, when the source
\* value is a sequence, and the empty sequence in every other case.
C17_ListFields ==
    [][C14_Returns =>
         \A f \in {"transactions", "daily_ending_balance", "cheques", "fees"} :
            normalized_data'.val.d[f] =
                IF C14_Present(f) /\ extracted_data.d[f].t = "list"
                THEN extracted_data.d[f] ELSE List(<<>>)]_vars

C17_Witness ==
    /\ pc = "post_process"
    /\ extracted_data = Dict([cheques |-> Str(<<"0">>)])
    /\ normalized_data.val.d["cheques"] = List(<<>>)

\* The zero-valued summary and the nsf_data the claim describes for a
\* source value x.
C18_ZeroSummary ==
    Dict([k \in {"total_nsf_fees", "unique_days_with_nsf",
                 "max_nsfs_in_any_7day_window"} |-> Num(0)])

C18_Summary(y) ==
    LET have == IF y.t = "dict" THEN y.d ELSE EmptyFcn
    IN  Dict([k \in DOMAIN have \cup DOMAIN C18_ZeroSummary.d |->
                IF k \in DOMAIN have THEN have[k] ELSE Num(0)])

C18_Expected(x) ==
    IF x.t # "dict"
    THEN Dict([events |-> List(<<>>), summary |-> C18_ZeroSummary])
    ELSE Dict([k \in DOMAIN x.d \cup {"events", "summary"} |->
                 CASE k = "summary" ->
                        IF k \in DOMAIN x.d THEN C18_Summary(x.d[k])
                        ELSE C18_ZeroSummary
                   [] k = "events" ->
                        IF k \in DOMAIN x.d THEN x.d[k] ELSE List(<<>>)
                   [] OTHER -> x.d[k]])

\* C18: for nsf_data the output is the zero-valued default when the source
\* value is absent or not a mapping; a mapping keeps its entries, gets
\* events = [] if that key is missing, the zero-valued summary if that key
\* is missing, and otherwise each of the three summary sub-fields set to 0
\* only if that sub-field is missing.
C18_NsfData ==
    [][pc = "normalize" =>
         /\ pc' = "post_process"
         /\ normalized_data'.val.d["nsf_data"]
              = C18_Expected(C14_Source("nsf_data"))]_vars

\* A source nsf_data mapping whose summary is null: the call has raised,
\* after adding the missing events key to the mapping.
C18_Reached ==
    /\ pc = "error"
    /\ error = "TypeError"
    /\ extracted_data =
         Dict([nsf_data |-> Dict([summary |-> Null, events |-> List(<<>>)])])

\* Document i has a message of the given kind.
C19_Reported(i, kind) ==
    \E k \in 1..Len(reports) : reports[k] = [file |-> i, kind |-> kind]

\* C19: in a batch of several documents an error raised while processing
\* one document (upload, submit, poll, normalization, balance derivation,
\* rendering) is caught at that document's boundary and reported for that
\* document only, and every later document is still processed: the error
\* is answered by one error message for the current document, the batch
\* goes on with the same document's cleanup, only a failure to write the
\* temporary file ends the run, and the loop is left only after every
\* document has its success or error message.
C19_ErrorsIsolated ==
    [][/\ pc = "error" =>
            /\ pc' = "finally"
            /\ reports' = Append(reports, [file |-> file_idx, kind |-> "error"])
            /\ file_idx' = file_idx
       /\ pc' = "crashed" => pc = "begin"
       /\ (pc = "finally" /\ file_idx < num_files) =>
            (pc' = "begin" /\ file_idx' = file_idx + 1)
       /\ pc' = "after_loop" =>
            \A i \in 1..num_files :
               /\ C19_Reported(i, "success") \/ C19_Reported(i, "error")
               /\ Cardinality({k \in 1..Len(reports) :
                     reports[k] = [file |-> i, kind |-> "error"]}) <= 1]_vars

\* The first of two documents failed before any result was shown, the
\* second was processed and shown.
C19_Witness ==
    /\ pc = "after_loop"
    /\ num_files = 2
    /\ reports = << [file |-> 1, kind |-> "error"],
                    [file |-> 2, kind |-> "success"] >>

\* C20: poll_job_until_complete ends in one of three ways, decided by the
\* fetched job status whatever else the response body contains: status
\* "Completed" makes it return the result payload; status "failed" or
\* "cancelled" makes it raise a RuntimeError naming the job id and the
\* status; any other status makes it sleep poll_interval and fetch again
\* until the deadline, after which it raises TimeoutError.
C20_DecidedByStatus ==
    [][/\ (poll_pc = "fetched" /\ resp.ok /\ resp.json /\ resp.body.t = "dict")
          => LET body == resp.body.d
                 st == IF "status" \in DOMAIN body THEN body["status"] ELSE Null
                 wrapped == "result" \in DOMAIN body
                            /\ body["result"].t = "dict"
                            /\ "result" \in DOMAIN body["result"].d
                            /\ body["result"].d["result"].t = "list"
                            /\ Len(body["result"].d["result"].l) > 0
             IN  CASE st = Str(<<"C", "o", "m", "p", "l", "e", "t", "e", "d">>) ->
                        /\ poll_pc' = "returned"
                        /\ wrapped =>
                             poll_out' = Return(body["result"].d["result"].l[1])
                   [] st \in {Str(<<"f", "a", "i", "l", "e", "d">>),
                              Str(<<"c", "a", "n", "c", "e", "l", "l", "e", "d">>)} ->
                        /\ poll_pc' = "raised"
                        /\ poll_out' = Throw("RuntimeError")
                        /\ poll_msg'.job = job_id
                        /\ poll_msg'.status = st
                   [] OTHER -> poll_pc' = "sleep"
       /\ poll_pc = "sleep" => (now' = now + poll_interval /\ poll_pc' = "test")
       /\ poll_pc = "test" =>
            IF now < end_time THEN poll_pc' = "fetch"
            ELSE poll_pc' = "raised" /\ poll_out' = Throw("TimeoutError")]_vars

\* A failed job whose body carries a result without a "result" entry: the
\* call has raised TypeError.
C20_Reached ==
    /\ poll_pc = "raised"
    /\ poll_out = Throw("TypeError")
    /\ resp = Response(TRUE, Dict([status |-> StatusFailed,
                                   result |-> Dict([error |-> Str(<<"a">>)])]))

\* The call has ended by the TimeoutError of line 91.
C21_TimedOut == poll_pc = "raised" /\ poll_out = Throw("TimeoutError")

\* Every call ends; no status request is issued at or after the deadline;
\* with timeout 0 none is issued at all.
C21_Ends == <>(poll_pc \in {"returned", "raised"})
C21_NoLateRequest == [][calls' # calls => now < end_time]_vars
C21_ZeroNoRequest == [](timeout = 0 => calls = <<>>)

\* C21: if the job never reports a terminal status, poll_job_until_complete
\* terminates (the clock advancing) by raising a timeout failure naming the
\* job id and the elapsed duration, and it issues no status request at or
\* after start time + timeout; with timeout 0 it raises without issuing
\* any request.
C21_NamesElapsed ==
    /\ C21_Ends
    /\ C21_NoLateRequest
    /\ C21_ZeroNoRequest
    /\ [](C21_TimedOut =>
            /\ poll_msg.job = job_id
            /\ poll_msg.timeout \in {elapsed, now})

\* C21 as amended: the timeout failure names the job id and the configured
\* timeout, which the time actually elapsed may exceed.
C21_NamesTimeout ==
    /\ C21_Ends
    /\ C21_NoLateRequest
    /\ C21_ZeroNoRequest
    /\ [](C21_TimedOut =>
            /\ poll_msg.job = job_id
            /\ poll_msg.timeout = timeout
            /\ now >= timeout)

\* A job still pending after three fetches, 30 seconds into a call with
\* timeout 25.
C21_Witness ==
    /\ C21_TimedOut
    /\ timeout = 25
    /\ now = 30
    /\ elapsed = 30
    /\ poll_msg.timeout = 25
    /\ Len(calls) = 3

\* C22: the temporary file of a document is deleted on every exit path of
\* that document's processing (success, an error in extraction,
\* normalization or rendering, a failure while writing the uploaded bytes
\* into it), a failure of the deletion is swallowed, and the deletion comes
\* before the next document's file is created, so that, deletions
\* succeeding, at most one temporary file exists at any time.
C22_TempFileDeleted ==
    [][/\ pc' = "crashed" => file_idx \notin tmp_files'
       /\ pc \in {"done", "error"} => pc' \in {"finally", "error"}
       /\ pc = "finally" =>
            /\ tmp_files' \in {tmp_files \ {file_idx}, tmp_files}
            /\ pc' \in {"begin", "after_loop"}
       /\ pc' = "begin" => file_idx \notin tmp_files' \/ tmp_files' = tmp_files
       /\ (\A i \in tmp_files' : i >= file_idx') =>
            Cardinality(tmp_files') <= 1]_vars

\* The write of the uploaded bytes failed: the run has ended and the file
\* created for the document is still there.
C22_Reached ==
    /\ pc = "crashed"
    /\ error = "OSError"
    /\ file_idx \in tmp_files

\* The call just logged was req and was answered by a non-success status.
C23_Rejected(req) == calls' = Append(calls, Call(req, "status"))

\* C23: at every step of the submit-and-poll protocol (POST /upload, PUT,
\* POST /extract, each GET /job/{id}) a non-success HTTP status is
\* propagated as the HTTP-status failure; in poll_job_until_complete a
\* non-success response raises it whatever its body is, and no other error
\* is raised in its place.
C23_StatusPropagated ==
    [][/\ \A req \in {"POST /upload", "PUT", "POST /extract"} :
            C23_Rejected(req) => (pc' = "error" /\ error' = "HTTPError")
       /\ (poll_pc = "fetched" /\ ~resp.ok) =>
            (poll_pc' = "raised" /\ poll_out' = Throw("HTTPError"))]_vars

\* A non-success status response whose body is not JSON: the call has
\* raised the decoding error.
C23_Reached ==
    /\ poll_pc = "raised"
    /\ poll_out = Throw("JSONDecodeError")
    /\ resp = NotJson(FALSE)
    /\ calls[Len(calls)] = Call("GET /job", "status")

\* The steps of one document in their order, and the calls they issue.
C24_Steps ==
    << "begin", "upload", "put", "submit", "poll", "normalize",
       "post_process", "calculate", "loop", "done", "finally" >>
C24_Position(step) == CHOOSE i \in 1..Len(C24_Steps) : C24_Steps[i] = step
C24_Requests == << "POST /upload", "PUT", "POST /extract" >>

\* C24: for each document the steps happen in one fixed order, each
\* starting only after the previous one succeeded: request upload slot,
\* PUT file bytes, submit extraction job, poll until the job completes,
\* normalize_output_structure, post_process_amounts,
\* calculate_running_balances on the output of post_process_amounts, then
\* render; and a document's processing ends, in success or failure, before
\* the next document's upload starts.
C24_FixedOrder ==
    /\ [][/\ (pc' # pc /\ pc' \notin {"error", "crashed", "begin",
                                      "after_loop", "finished"})
               => /\ pc \in {C24_Steps[i] : i \in 1..Len(C24_Steps)} \cup {"error"}
                  /\ pc = "error" => pc' = "finally"
                  /\ pc # "error"
                       => C24_Position(pc') = C24_Position(pc) + 1
          /\ pc' = "error" => pc \in {C24_Steps[i] : i \in 2..10}
          /\ file_idx' # file_idx
               => /\ pc = "finally" /\ pc' = "begin"
                  /\ file_idx' = file_idx + 1
                  /\ calls' = <<>>
          /\ pc' = "loop" /\ pc = "calculate"
               => Ok(current_balance') = StartingBalance(processed_data.val)]_vars
    /\ [](\A i \in 1..Len(calls) :
            /\ calls[i].req = IF i <= 3 THEN C24_Requests[i] ELSE "GET /job"
            /\ i < Len(calls) => calls[i].outcome = "success")
    /\ [](pc \in {"begin", "upload"} => calls = <<>>)
    /\ [](pc \in {"calculate", "loop", "done"} =>
            /\ normalized_data = normalize_output_structure(extracted_data).out
            /\ processed_data = Return(post_process_amounts(normalized_data.val)))
    /\ [](pc \in {"normalize", "post_process", "calculate", "loop", "done"} =>
            /\ Len(calls) >= 4
            /\ calls[Len(calls)] = Call("GET /job", "success"))

\* The second of two documents is rendered, after the first was.
C24_Witness ==
    /\ pc = "finally"
    /\ file_idx = 2
    /\ Len(calls) = 5
    /\ reports = << [file |-> 1, kind |-> "success"],
                    [file |-> 2, kind |-> "success"] >>

\* C25: no network call is retried: once a call for a document fails
\* (upload slot request, file PUT, job submission or a status fetch), no
\* further call is issued for that document and its processing ends in
\* failure; a status fetch is repeated only after a successful response
\* carrying a non-terminal status.
C25_NoRetry ==
    [][/\ Len(calls') > Len(calls) =>
            /\ \A i \in 1..Len(calls) : calls[i].outcome = "success"
            /\ \A i \in 1..Len(calls) :
                 calls[i].req = calls'[Len(calls')].req
                 => /\ calls[i].req = "GET /job"
                    /\ resp.ok /\ resp.json /\ resp.body.t = "dict"
                    /\ ("status" \in DOMAIN resp.body.d =>
                          resp.body.d["status"] \notin
                             {StatusCompleted, StatusFailed, StatusCancelled})
       /\ (Len(calls') > Len(calls)
             /\ calls'[Len(calls')].outcome # "success")
            => \/ pc' = "error"
               \/ pc' = "poll" /\ poll_pc' \in {"raised", "fetched"}
       /\ (pc = "poll" /\ poll_pc = "fetched" /\ ~resp.ok) => poll_pc' = "raised"
       /\ (pc = "poll" /\ poll_pc = "raised") => pc' = "error"]_vars

\* The second status fetch of a document was rejected and ended its
\* processing.
C25_Witness ==
    /\ pc = "error"
    /\ Len(calls) = 5
    /\ calls[4] = Call("GET /job", "success")
    /\ calls[5] = Call("GET /job", "status")

\* extract_with_enhanced_ocr_async called on its own, lines 281-332, with a
\* path that names an existing file or no file.
InitExtract ==
    /\ AmountsIdle
    /\ BalancesIdle
    /\ PollIdle
    /\ LogIdle
    /\ extracted_data = Null
    /\ normalized_data = NoResult
    /\ processed_data = NoResult
    /\ pc = "upload"
    /\ num_files = 1
    /\ file_idx = 1
    /\ tmp_files \in SUBSET {1}
    /\ upload_form = Null
    /\ document_url = Null
    /\ reports = <<>>

NextExtract ==
    \/ UploadPost \/ UploadPut \/ Submit
    \/ PollStart \/ PollTest \/ PollFetch \/ PollHandle \/ PollSleep
    \/ ExtractReturn \/ ExtractRaise

SpecExtract == InitExtract /\ [][NextExtract]_vars

\* C26: when the file named to upload_file_to_reducto does not exist
\* locally, the operation fails with a file-not-found error before any
\* network call is made: no upload request, no PUT, no job submission and
\* no status fetch occurs for that document.
C26_FileNotFound ==
    /\ [][(pc = "upload" /\ file_idx \notin tmp_files)
            => /\ pc' = "error"
               /\ error' = "FileNotFoundError"
               /\ calls' = calls]_vars
    /\ [](file_idx \notin tmp_files
            => /\ calls = <<>>
               /\ pc \in {"upload", "error"}
               /\ resp = NoResponse
               /\ submit_resp = NoResponse
               /\ upload_form = Null)

\* The upload of a missing file has failed.
C26_Witness ==
    /\ file_idx \notin tmp_files
    /\ pc = "error"
    /\ error = "FileNotFoundError"
    /\ calls = <<>>

\* C27: normalize_output_structure does not modify its argument: after the
\* call the raw input mapping, including a nested nsf_data mapping and its
\* summary, has exactly the keys and values it had before the call.
C27_ArgumentKept ==
    [][pc = "normalize" => extracted_data' = extracted_data]_vars

\* The call was made on a mapping whose nsf_data is an empty mapping; the
\* caller's mapping now holds the events and the summary the call added.
C27_Reached ==
    /\ pc = "post_process"
    /\ IsDict(extracted_data)
    /\ DOMAIN extracted_data.d = {"nsf_data"}
    /\ IsDict(extracted_data.d["nsf_data"])
    /\ DOMAIN extracted_data.d["nsf_data"].d = {"events", "summary"}

\* C28: the batch-level message "All files processed successfully!" is
\* shown after the batch loop only if every document of the batch was
\* processed without error; it is not shown when the processing of at least
\* one document ended in the per-document error branch.
C28_OnlyIfNoError ==
    (\E i \in 1..Len(reports) : reports[i].kind = "all_processed")
    => \A i \in 1..Len(reports) : reports[i].kind # "error"

\* The batch is over, its only document ended in the error branch, and the
\* batch-level message is shown after the error message.
C28_Reached ==
    /\ pc = "finished"
    /\ num_files = 1
    /\ reports = << [file |-> 1, kind |-> "error"],
                    [file |-> 0, kind |-> "all_processed"] >>

\* C29: a document is reported as successfully processed only when the
\* job's Completed response carried an extraction payload: whenever
\* poll_job_until_complete returns, the value is the first element of the
\* response's result.result list, and a Completed response whose result is
\* absent, null or empty is not returned as a success that the pipeline
\* then normalizes into an all-default record.
C29_PayloadReturned ==
    /\ poll_pc = "returned"
         => LET result == DictGet(resp.body.d, "result", Null)
            IN  /\ IsDict(result)
                /\ "result" \in DOMAIN result.d
                /\ result.d["result"].t = "list"
                /\ Len(result.d["result"].l) > 0
                /\ poll_out.val = result.d["result"].l[1]
    /\ (Len(reports) > 0 /\ pc = "finally"
          /\ reports[Len(reports)] = [file |-> file_idx, kind |-> "success"])
         => Truthy(extracted_data)

\* The job answered Completed without a result, the poll returned None, and
\* the document was normalized into the all-default record and reported as
\* a success.
C29_Reached ==
    /\ pc = "finally"
    /\ reports = << [file |-> 1, kind |-> "success"] >>
    /\ extracted_data = Null
    /\ normalized_data = normalize_output_structure(Null).out
    /\ calls[Len(calls)] = Call("GET /job", "success")

\* C30: when the job-submission response carries no job_id (absent, null
\* or empty), extract_with_enhanced_ocr_async raises a RuntimeError and
\* never starts polling: no GET /job request is issued for that document.
C30_NoJobId ==
    (/\ submit_resp.kind = "http"
     /\ submit_resp.ok
     /\ submit_resp.json
     /\ IsDict(submit_resp.body)
     /\ DictGet(submit_resp.body.d, "job_id", Null)
           \in {Null, Str(<<>>)})
    => /\ pc \in {"error", "finally"}
       /\ pc = "error" => error = "RuntimeError"
       /\ \A i \in 1..Len(calls) : calls[i].req # "GET /job"
       /\ calls[Len(calls)].req = "POST /extract"
       /\ PollIdle

\* The submission was answered with an empty job_id and the extraction
\* raised RuntimeError after its third request.
C30_Witness ==
    /\ pc = "error"
    /\ error = "RuntimeError"
    /\ submit_resp = Response(TRUE, Dict([job_id |-> Str(<<>>)]))
    /\ Len(calls) = 3

=============================================================================
